---- MODULE Spec2Model ----
(***************************************************************************)
(* Gradebook Analyzer (src/gradebook.py): the menu loop of main, the two   *)
(* input adapters, the analysis pass and the CSV export.                   *)
(*                                                                         *)
(* A Python str is modelled as a sequence of one-character strings, so     *)
(* that strip(), lower(), int(), str() and the csv dialect are computed    *)
(* character by character.  A dict is modelled as a sequence of            *)
(* <<key, value>> pairs with distinct keys, in insertion order.            *)
(***************************************************************************)
EXTENDS Integers, Sequences, FiniteSets, TLC

VARIABLES
    pc,            \* position of main: the input() call it is blocked on
    marks_dict,    \* the adapter's local dict while it collects
    name,          \* get_manual_input: the name read in this iteration
    marks_data,    \* main: the Record Store of this iteration
    grades_data,   \* main: the grade mapping of this iteration
    distribution,  \* main: the grade distribution of this iteration
    max_entry,     \* main: (max_name, max_score)
    min_entry,     \* main: (min_name, min_score)
    passed,        \* print_pass_fail_summary: passed_students
    failed,        \* print_pass_fail_summary: failed_students
    save_choice,   \* main: the normalised confirmation answer
    filename,      \* load_from_csv, save_results_to_csv: the file name used
    fs,            \* the files the program reads and writes
    msg            \* the last status line printed

vars == <<pc, marks_dict, name, marks_data, grades_data, distribution,
          max_entry, min_entry, passed, failed, save_choice, filename, fs, msg>>

----------------------------------------------------------------------------
(* Bounds of the model *)

MaxStudents == 2

MaxRows == 3

----------------------------------------------------------------------------
(* Python str operations, character by character *)

Whitespace == {" ", "\t", "\n", "\r"}

Digits == {"0", "1", "2", "3", "4", "5", "6", "7", "8", "9"}

RECURSIVE LStrip(_)
LStrip(s) ==
    IF s # <<>> /\ Head(s) \in Whitespace THEN LStrip(Tail(s)) ELSE s

RECURSIVE RStrip(_)
RStrip(s) ==
    IF s # <<>> /\ s[Len(s)] \in Whitespace
    THEN RStrip(SubSeq(s, 1, Len(s) - 1))
    ELSE s

Strip(s) == RStrip(LStrip(s))

LowerChar(c) ==
    CASE c = "Y" -> "y"
      [] c = "N" -> "n"
      [] c = "A" -> "a"
      [] c = "B" -> "b"
      [] OTHER -> c

Lower(s) == [i \in 1..Len(s) |-> LowerChar(s[i])]

EndsWith(s, suffix) ==
    /\ Len(s) >= Len(suffix)
    /\ SubSeq(s, Len(s) - Len(suffix) + 1, Len(s)) = suffix

\* Code point of a character; sorted() compares strings by code point.
Ord(c) ==
    CASE c = "\t" -> 9
      [] c = "\n" -> 10
      [] c = "\r" -> 13
      [] c = " " -> 32
      [] c = "\"" -> 34
      [] c = "+" -> 43
      [] c = "," -> 44
      [] c = "-" -> 45
      [] c = "." -> 46
      [] c \in Digits -> 48 + (CHOOSE d \in 0..9 :
                                 c = <<"0", "1", "2", "3", "4", "5", "6", "7", "8", "9">>[d + 1])
      [] c = "A" -> 65
      [] c = "B" -> 66
      [] c = "F" -> 70
      [] c = "N" -> 78
      [] c = "Y" -> 89
      [] c = "_" -> 95
      [] c = "a" -> 97
      [] c = "b" -> 98
      [] c = "c" -> 99
      [] c = "n" -> 110
      [] c = "r" -> 114
      [] c = "s" -> 115
      [] c = "v" -> 118
      [] c = "x" -> 120
      [] c = "y" -> 121

RECURSIVE StrLess(_, _)
StrLess(s, t) ==
    IF t = <<>> THEN FALSE
    ELSE IF s = <<>> THEN TRUE
    ELSE IF Ord(Head(s)) # Ord(Head(t)) THEN Ord(Head(s)) < Ord(Head(t))
    ELSE StrLess(Tail(s), Tail(t))

DigitVal(c) == Ord(c) - 48

DigitChar(d) == <<"0", "1", "2", "3", "4", "5", "6", "7", "8", "9">>[d + 1]

\* int(s): surrounding whitespace, an optional sign, digits with single
\* underscores between them.  [ok |-> FALSE] stands for ValueError.
RECURSIVE DigitsValue(_, _)
DigitsValue(d, acc) ==
    IF d = <<>> THEN acc
    ELSE IF Head(d) = "_" THEN DigitsValue(Tail(d), acc)
    ELSE DigitsValue(Tail(d), 10 * acc + DigitVal(Head(d)))

ValidDigits(d) ==
    /\ d # <<>>
    /\ \A i \in 1..Len(d) : d[i] \in Digits \cup {"_"}
    /\ d[1] # "_"
    /\ d[Len(d)] # "_"
    /\ \A i \in 1..(Len(d) - 1) : ~(d[i] = "_" /\ d[i + 1] = "_")

ParseInt(s) ==
    LET t == Strip(s)
        signed == t # <<>> /\ Head(t) \in {"+", "-"}
        d == IF signed THEN Tail(t) ELSE t
    IN  IF ValidDigits(d)
        THEN [ok |-> TRUE,
              val |-> IF signed /\ Head(t) = "-"
                      THEN 0 - DigitsValue(d, 0) ELSE DigitsValue(d, 0)]
        ELSE [ok |-> FALSE, val |-> 0]

\* str(n) of an int
RECURSIVE NatStr(_)
NatStr(n) ==
    IF n < 10 THEN <<DigitChar(n)>>
    ELSE Append(NatStr(n \div 10), DigitChar(n % 10))

FormatInt(n) == IF n < 0 THEN <<"-">> \o NatStr(0 - n) ELSE NatStr(n)

----------------------------------------------------------------------------
(* Python dict: a sequence of <<key, value>> pairs in insertion order *)

Keys(d) == {d[i][1] : i \in 1..Len(d)}

Get(d, k) == d[CHOOSE i \in 1..Len(d) : d[i][1] = k][2]

\* d[k] = v: a present key keeps its position, a new key goes last
Put(d, k, v) ==
    IF k \in Keys(d)
    THEN [i \in 1..Len(d) |-> IF d[i][1] = k THEN <<k, v>> ELSE d[i]]
    ELSE Append(d, <<k, v>>)

\* The mapping a dict denotes (dict equality ignores insertion order)
AsMap(d) == [k \in Keys(d) |-> Get(d, k)]

Values(d) == [i \in 1..Len(d) |-> d[i][2]]

\* sorted(keys): insertion sort by code point order
RECURSIVE InsertSorted(_, _)
InsertSorted(s, k) ==
    IF s = <<>> THEN <<k>>
    ELSE IF StrLess(k, Head(s)) THEN <<k>> \o s
    ELSE <<Head(s)>> \o InsertSorted(Tail(s), k)

RECURSIVE SortedKeys(_)
SortedKeys(d) ==
    IF d = <<>> THEN <<>>
    ELSE InsertSorted(SortedKeys(SubSeq(d, 1, Len(d) - 1)), d[Len(d)][1])

----------------------------------------------------------------------------
(* The csv module, excel dialect: delimiter ",", quotechar '"',            *)
(* doublequote, QUOTE_MINIMAL, lineterminator "\r\n", not strict           *)

EOL == "EOL"

RECURSIVE DoubleQuotes(_)
DoubleQuotes(f) ==
    IF f = <<>> THEN <<>>
    ELSE IF Head(f) = "\"" THEN <<"\"", "\"">> \o DoubleQuotes(Tail(f))
    ELSE <<Head(f)>> \o DoubleQuotes(Tail(f))

NeedsQuote(f) == \E i \in 1..Len(f) : f[i] \in {",", "\"", "\r", "\n"}

WriteField(f) ==
    IF NeedsQuote(f) THEN <<"\"">> \o DoubleQuotes(f) \o <<"\"">> ELSE f

RECURSIVE JoinFields(_)
JoinFields(row) ==
    IF row = <<>> THEN <<>>
    ELSE IF Len(row) = 1 THEN WriteField(row[1])
    ELSE WriteField(Head(row)) \o <<",">> \o JoinFields(Tail(row))

\* writer.writerow(row), into a file opened with newline=''
WriteRow(row) ==
    (IF row = <<<<>>>> THEN <<"\"", "\"">> ELSE JoinFields(row)) \o <<"\r", "\n">>

\* Text-mode read with universal newlines: "\r\n" and "\r" become "\n"
RECURSIVE Translate(_)
Translate(c) ==
    IF c = <<>> THEN <<>>
    ELSE IF Head(c) = "\r"
         THEN IF Len(c) >= 2 /\ c[2] = "\n"
              THEN <<"\n">> \o Translate(Tail(Tail(c)))
              ELSE <<"\n">> \o Translate(Tail(c))
    ELSE <<Head(c)>> \o Translate(Tail(c))

\* The reader is fed line by line; after the characters of each line it
\* is given the end-of-line mark.
RECURSIVE LineTokens(_)
LineTokens(t) ==
    IF t = <<>> THEN <<>>
    ELSE IF Head(t) = "\n" THEN <<"\n", EOL>> \o LineTokens(Tail(t))
    ELSE IF Len(t) = 1 THEN <<Head(t), EOL>>
    ELSE <<Head(t)>> \o LineTokens(Tail(t))

SaveField(S, st) ==
    [st |-> st, field |-> <<>>, fields |-> Append(S.fields, S.field)]

AddChar(S, c, st) ==
    [st |-> st, field |-> Append(S.field, c), fields |-> S.fields]

AfterLineEnd(c) == IF c = EOL THEN "START_RECORD" ELSE "EAT_CRNL"

\* parse_process_char of the reader
ProcessChar(S, c) ==
    LET StartField ==
            IF c \in {"\n", "\r", EOL} THEN SaveField(S, AfterLineEnd(c))
            ELSE IF c = "\"" THEN [S EXCEPT !.st = "IN_QUOTED_FIELD"]
            ELSE IF c = "," THEN SaveField(S, "START_FIELD")
            ELSE AddChar(S, c, "IN_FIELD")
    IN  CASE S.st = "START_RECORD" ->
                IF c = EOL THEN S
                ELSE IF c \in {"\n", "\r"} THEN [S EXCEPT !.st = "EAT_CRNL"]
                ELSE StartField
          [] S.st = "START_FIELD" -> StartField
          [] S.st = "IN_FIELD" ->
                IF c \in {"\n", "\r", EOL} THEN SaveField(S, AfterLineEnd(c))
                ELSE IF c = "," THEN SaveField(S, "START_FIELD")
                ELSE AddChar(S, c, "IN_FIELD")
          [] S.st = "IN_QUOTED_FIELD" ->
                IF c = EOL THEN S
                ELSE IF c = "\"" THEN [S EXCEPT !.st = "QUOTE_IN_QUOTED_FIELD"]
                ELSE AddChar(S, c, "IN_QUOTED_FIELD")
          [] S.st = "QUOTE_IN_QUOTED_FIELD" ->
                IF c = "\"" THEN AddChar(S, c, "IN_QUOTED_FIELD")
                ELSE IF c = "," THEN SaveField(S, "START_FIELD")
                ELSE IF c \in {"\n", "\r", EOL} THEN SaveField(S, AfterLineEnd(c))
                ELSE AddChar(S, c, "IN_FIELD")
          [] S.st = "EAT_CRNL" ->
                IF c \in {"\n", "\r"} THEN S
                ELSE IF c = EOL THEN [S EXCEPT !.st = "START_RECORD"]
                ELSE [S EXCEPT !.st = "ERROR"]
          [] OTHER -> S

ParseReset == [st |-> "START_RECORD", field |-> <<>>, fields |-> <<>>]

\* Reader_iternext, over all the lines: the rows the reader yields
RECURSIVE ReadRows(_, _, _)
ReadRows(toks, S, rows) ==
    IF toks = <<>>
    THEN IF S.field # <<>> \/ S.st = "IN_QUOTED_FIELD"
         THEN Append(rows, Append(S.fields, S.field))
         ELSE rows
    ELSE LET S1 == ProcessChar(S, Head(toks))
         IN  IF Head(toks) = EOL /\ S1.st = "START_RECORD"
             THEN ReadRows(Tail(toks), ParseReset, Append(rows, S1.fields))
             ELSE ReadRows(Tail(toks), S1, rows)

\* csv.reader(file) over a file opened in text mode
CsvReader(content) == ReadRows(LineTokens(Translate(content)), ParseReset, <<>>)

----------------------------------------------------------------------------
(* The adapters and the analysis functions of src/gradebook.py *)

PassThreshold == 40

\* Mutant of LoadRow: a second column that is no integer stores the name
\* with mark 0 instead of skipping the row.
LoadRowZero(d, row) ==
    IF row = <<>> THEN d
    ELSE IF Len(row) < 2 THEN d
    ELSE LET m == ParseInt(Strip(row[2]))
         IN  Put(d, Strip(row[1]), IF m.ok THEN m.val ELSE 0)

\* The body of the loop of load_from_csv, for one row of the reader
LoadRow(d, row) ==
    IF row = <<>> THEN d                      \* if not row: continue
    ELSE IF Len(row) < 2 THEN d               \* IndexError: row skipped
    ELSE LET m == ParseInt(Strip(row[2]))
         IN  IF m.ok THEN Put(d, Strip(row[1]), m.val)
             ELSE d                           \* ValueError: row skipped

RECURSIVE LoadRows(_, _)
LoadRows(d, rows) ==
    IF rows = <<>> THEN d
    ELSE LoadRows(LoadRow(d, Head(rows)), Tail(rows))

\* load_from_csv on the file f: the dict it returns and the line it prints.
\* An empty file makes next(reader) raise StopIteration, which the
\* handler of Exception reports.
LoadFromFile(f) ==
    IF ~f.exists THEN [dict |-> <<>>, msg |-> "not_found"]
    ELSE LET rows == CsvReader(f.data)
         IN  IF rows = <<>> THEN [dict |-> <<>>, msg |-> "error"]
             ELSE [dict |-> LoadRows(<<>>, Tail(rows)), msg |-> "loading"]

\* get_max_score / get_min_score: max() and min() keep the first of
\* several equal extremes.
\* Mutant of MaxItem: >= keeps the last of several equal maxima.
RECURSIVE MaxItemLast(_, _)
MaxItemLast(best, items) ==
    IF items = <<>> THEN best
    ELSE MaxItemLast(IF Head(items)[2] >= best[2] THEN Head(items) ELSE best,
                     Tail(items))

RECURSIVE MaxItem(_, _)
MaxItem(best, items) ==
    IF items = <<>> THEN best
    ELSE MaxItem(IF Head(items)[2] > best[2] THEN Head(items) ELSE best,
                 Tail(items))

RECURSIVE MinItem(_, _)
MinItem(best, items) ==
    IF items = <<>> THEN best
    ELSE MinItem(IF Head(items)[2] < best[2] THEN Head(items) ELSE best,
                 Tail(items))

NotAvailable == <<<<"N", "/", "A">>, 0>>

get_max_score(d) == IF d = <<>> THEN NotAvailable ELSE MaxItem(Head(d), Tail(d))

get_min_score(d) == IF d = <<>> THEN NotAvailable ELSE MinItem(Head(d), Tail(d))

\* Mutant of GradeOf: the A cutoff compared with > instead of >=.
GradeOfStrict(mark) ==
    IF mark > 90 THEN "A"
    ELSE IF mark >= 80 THEN "B"
    ELSE IF mark >= 70 THEN "C"
    ELSE IF mark >= 60 THEN "D"
    ELSE "F"

GradeOf(mark) ==
    IF mark >= 90 THEN "A"
    ELSE IF mark >= 80 THEN "B"
    ELSE IF mark >= 70 THEN "C"
    ELSE IF mark >= 60 THEN "D"
    ELSE "F"

\* Mutant of AssignInto: the final else branch is missing, so a mark
\* below 60 gets no grade.
RECURSIVE AssignIntoPassing(_, _)
AssignIntoPassing(g, items) ==
    IF items = <<>> THEN g
    ELSE AssignIntoPassing(IF Head(items)[2] >= 60
                           THEN Put(g, Head(items)[1], GradeOf(Head(items)[2]))
                           ELSE g,
                           Tail(items))

RECURSIVE AssignInto(_, _)
AssignInto(g, items) ==
    IF items = <<>> THEN g
    ELSE AssignInto(Put(g, Head(items)[1], GradeOf(Head(items)[2])), Tail(items))

assign_grades(d) == AssignInto(<<>>, d)

ZeroDistribution == [g \in {"A", "B", "C", "D", "F"} |-> 0]

\* Mutant of CountGrades: the distribution is built without counting F.
RECURSIVE CountGradesNoF(_, _)
CountGradesNoF(dist, gs) ==
    IF gs = <<>> THEN dist
    ELSE CountGradesNoF(IF Head(gs) \in DOMAIN dist \ {"F"}
                        THEN [dist EXCEPT ![Head(gs)] = @ + 1]
                        ELSE dist,
                        Tail(gs))

RECURSIVE CountGrades(_, _)
CountGrades(dist, gs) ==
    IF gs = <<>> THEN dist
    ELSE CountGrades(IF Head(gs) \in DOMAIN dist
                     THEN [dist EXCEPT ![Head(gs)] = @ + 1]
                     ELSE dist,
                     Tail(gs))

calculate_grade_distribution(g) == CountGrades(ZeroDistribution, Values(g))

RECURSIVE PassedOf(_, _)
PassedOf(d, threshold) ==
    IF d = <<>> THEN <<>>
    ELSE (IF Head(d)[2] >= threshold THEN <<Head(d)>> ELSE <<>>)
         \o PassedOf(Tail(d), threshold)

\* Mutant of FailedOf: <= puts a mark equal to the threshold in both sets.
RECURSIVE FailedOfInclusive(_, _)
FailedOfInclusive(d, threshold) ==
    IF d = <<>> THEN <<>>
    ELSE (IF Head(d)[2] <= threshold THEN <<Head(d)>> ELSE <<>>)
         \o FailedOfInclusive(Tail(d), threshold)

RECURSIVE FailedOf(_, _)
FailedOf(d, threshold) ==
    IF d = <<>> THEN <<>>
    ELSE (IF Head(d)[2] < threshold THEN <<Head(d)>> ELSE <<>>)
         \o FailedOf(Tail(d), threshold)

CsvSuffix == <<".", "c", "s", "v">>

HeaderRow == <<<<"N", "a", "m", "e">>, <<"M", "a", "r", "k", "s">>,
               <<"G", "r", "a", "d", "e">>>>

\* The data rows of save_results_to_csv, in sorted order of the names; the
\* lookup grades_dict[name] of a missing name raises KeyError, which ends
\* the writing with the rows written so far.
RECURSIVE DataRows(_, _, _)
DataRows(names, d, g) ==
    IF names = <<>> THEN [text |-> <<>>, ok |-> TRUE]
    ELSE IF Head(names) \notin Keys(g) THEN [text |-> <<>>, ok |-> FALSE]
    ELSE LET rest == DataRows(Tail(names), d, g)
         IN  [text |-> WriteRow(<<Head(names), FormatInt(Get(d, Head(names))),
                                  <<Get(g, Head(names))>>>>) \o rest.text,
              ok |-> rest.ok]

\* Mutant of ExportOf: the header row is not written.
ExportOfNoHeader(d, g) ==
    LET rows == DataRows(SortedKeys(d), d, g)
    IN  [text |-> rows.text, ok |-> rows.ok]

ExportOf(d, g) ==
    LET rows == DataRows(SortedKeys(d), d, g)
    IN  [text |-> WriteRow(HeaderRow) \o rows.text, ok |-> rows.ok]

SavePath(raw) ==
    IF EndsWith(Strip(raw), CsvSuffix) THEN Strip(raw) ELSE Strip(raw) \o CsvSuffix

----------------------------------------------------------------------------
(* Inputs: the lines typed at the prompts and the files on disk *)

MenuInputs == {<<"1">>, <<"2">>, <<"3">>, <<"4">>, <<>>, <<" ", "1">>}

NameInputs == {<<>>, <<" ">>, <<"a">>, <<" ", "a", " ">>, <<"b">>,
               <<"a", ",", "\"">>}

MarkInputs == {<<" ", "0", " ">>, <<"1", "0", "0">>, <<"1", "0", "1">>,
               <<"-", "1">>, <<"x">>, <<>>}

AnswerInputs == {<<"y">>, <<"Y">>, <<" ", "y", " ">>, <<"n">>, <<>>,
                 <<"y", "y">>}

RPath == <<"r">> \o CsvSuffix

APath == <<"a">> \o CsvSuffix

Paths == {RPath, APath}

SaveNameInputs == {<<"r">>, RPath, <<" ", "r">>}

LoadNameInputs == {RPath, <<" ">> \o RPath \o <<" ">>, <<"r">>, APath}

NoFile == [exists |-> FALSE, data |-> <<>>]

File(text) == [exists |-> TRUE, data |-> text]

\* Lines of an imported file
LineInputs ==
    { <<"a", ",", "8", "5">>,
      <<"b", ",", " ", "1", "0", "1", " ">>,
      <<"a">>,
      <<>>,
      <<"b", ",", "x">>,
      <<",", "0">>,
      <<"\"", "a", ",", "b", "\"", ",", "-", "1">>,
      <<" ", "a", ",", "9", "0", ",", "A">>,
      <<"\"", "a">> }

HeaderLine == <<"N", ",", "M", "\n">>

RECURSIVE JoinLines(_)
JoinLines(ls) ==
    IF ls = <<>> THEN <<>> ELSE Head(ls) \o <<"\n">> \o JoinLines(Tail(ls))

CsvContents ==
    {<<>>} \cup
    { HeaderLine \o JoinLines(ls) :
        ls \in UNION { [1..n -> LineInputs] : n \in 0..MaxRows } }

\* Record Stores an adapter can return: names as strip() leaves them, any
\* integer marks
AnalysisNames == {<<>>, <<"a">>, <<"b", ",", "\"">>, <<"a", "\n", "b">>}

AnalysisMarks == {-1, 40, 59, 60, 79, 80, 89, 90, 101}

Stores ==
    { d \in UNION { [1..n -> AnalysisNames \X AnalysisMarks] : n \in 0..MaxStudents } :
        \A i, j \in 1..Len(d) : i # j => d[i][1] # d[j][1] }

----------------------------------------------------------------------------
(* The program *)

Locals ==
    /\ marks_dict = <<>>
    /\ name = <<>>
    /\ grades_data = <<>>
    /\ distribution = ZeroDistribution
    /\ max_entry = NotAvailable
    /\ min_entry = NotAvailable
    /\ passed = <<>>
    /\ failed = <<>>
    /\ save_choice = <<>>
    /\ filename = <<>>
    /\ msg = "welcome"

Init ==
    /\ pc = "menu"
    /\ marks_data = <<>>
    /\ fs = [p \in Paths |-> NoFile]
    /\ Locals

\* Mutant of AfterCollect: the analysis runs without the test of line 238.
AfterCollectAlways(d) ==
    /\ marks_data' = d
    /\ marks_dict' = <<>>
    /\ name' = <<>>
    /\ pc' = "analyze"

\* main after an adapter returned d (line 238)
AfterCollect(d) ==
    /\ marks_data' = d
    /\ marks_dict' = <<>>
    /\ name' = <<>>
    /\ pc' = IF d # <<>> THEN "analyze" ELSE "menu"

\* Lines 221-234: the menu prompt and the dispatch on the choice.  The
\* locals of the previous pass are dead here (each is assigned again before
\* it is read), so they are cleared with marks_data.
Menu(choice) ==
    /\ pc = "menu"
    /\ marks_data' = <<>>
    /\ pc' = IF choice = <<"1">> THEN "manual_name"
             ELSE IF choice = <<"2">> THEN "csv_filename"
             ELSE IF choice = <<"3">> THEN "exit"
             ELSE "menu"
    /\ msg' = IF choice = <<"1">> THEN "manual_entry"
              ELSE IF choice = <<"2">> THEN "load_csv"
              ELSE IF choice = <<"3">> THEN "goodbye"
              ELSE "invalid_choice"
    /\ marks_dict' = <<>>
    /\ name' = <<>>
    /\ grades_data' = <<>>
    /\ distribution' = ZeroDistribution
    /\ max_entry' = NotAvailable
    /\ min_entry' = NotAvailable
    /\ passed' = <<>>
    /\ failed' = <<>>
    /\ save_choice' = <<>>
    /\ filename' = <<>>
    /\ UNCHANGED fs

\* get_manual_input, lines 38-40: the name prompt
ManualName(raw) ==
    /\ pc = "manual_name"
    /\ LET n == Strip(raw)
       IN  IF n = <<>>
           THEN /\ AfterCollect(marks_dict)
                /\ msg' = IF marks_dict # <<>> THEN "analysis" ELSE "no_data"
           ELSE /\ name' = n
                /\ pc' = "manual_mark"
                /\ UNCHANGED <<marks_dict, marks_data, msg>>
    /\ UNCHANGED <<grades_data, distribution, max_entry, min_entry, passed,
                   failed, save_choice, filename, fs>>

\* Mutant of ManualMark: the range test of line 44 is missing.
ManualMarkNoRange(raw) ==
    /\ pc = "manual_mark"
    /\ LET m == ParseInt(Strip(raw))
       IN  IF m.ok
           THEN /\ name \in Keys(marks_dict) \/ Len(marks_dict) < MaxStudents
                /\ marks_dict' = Put(marks_dict, name, m.val)
                /\ msg' = "manual_entry"
           ELSE /\ msg' = "invalid_input"
                /\ UNCHANGED marks_dict
    /\ pc' = "manual_name"
    /\ UNCHANGED <<name, marks_data, grades_data, distribution, max_entry,
                   min_entry, passed, failed, save_choice, filename, fs>>

\* get_manual_input, lines 42-49: the mark prompt
ManualMark(raw) ==
    /\ pc = "manual_mark"
    /\ LET m == ParseInt(Strip(raw))
       IN  IF m.ok
           THEN IF 0 <= m.val /\ m.val <= 100
                THEN /\ name \in Keys(marks_dict) \/ Len(marks_dict) < MaxStudents
                     /\ marks_dict' = Put(marks_dict, name, m.val)
                     /\ msg' = "manual_entry"
                ELSE /\ msg' = "invalid_mark"
                     /\ UNCHANGED marks_dict
           ELSE /\ msg' = "invalid_input"
                /\ UNCHANGED marks_dict
    /\ pc' = "manual_name"
    /\ UNCHANGED <<name, marks_data, grades_data, distribution, max_entry,
                   min_entry, passed, failed, save_choice, filename, fs>>

\* load_from_csv, lines 61-84
LoadFromCsv(raw) ==
    /\ pc = "csv_filename"
    /\ filename' = Strip(raw)
    /\ LET r == LoadFromFile(IF Strip(raw) \in Paths THEN fs[Strip(raw)] ELSE NoFile)
       IN  /\ AfterCollect(r.dict)
           /\ msg' = IF r.dict # <<>> THEN "analysis" ELSE "no_data"
    /\ UNCHANGED <<grades_data, distribution, max_entry, min_entry, passed,
                   failed, save_choice, fs>>

\* main, lines 239-262: statistics, grades, distribution, pass/fail summary
Analyze ==
    /\ pc = "analyze"
    /\ max_entry' = get_max_score(marks_data)
    /\ min_entry' = get_min_score(marks_data)
    /\ grades_data' = assign_grades(marks_data)
    /\ distribution' = calculate_grade_distribution(assign_grades(marks_data))
    /\ passed' = PassedOf(marks_data, PassThreshold)
    /\ failed' = FailedOf(marks_data, PassThreshold)
    /\ pc' = "report"
    /\ msg' = "summary"
    /\ UNCHANGED <<marks_dict, name, marks_data, save_choice, filename, fs>>

\* main, lines 265-270: the results table and the confirmation prompt
Report(raw) ==
    /\ pc = "report"
    /\ save_choice' = Lower(Strip(raw))
    /\ pc' = IF Lower(Strip(raw)) = <<"y">> THEN "save_filename" ELSE "menu"
    /\ msg' = "table"
    /\ UNCHANGED <<marks_dict, name, marks_data, grades_data, distribution,
                   max_entry, min_entry, passed, failed, filename, fs>>

\* save_results_to_csv, lines 191-210; opened says whether open() succeeds
SaveResults(raw, opened) ==
    /\ pc = "save_filename"
    /\ LET path == SavePath(raw)
           out == ExportOf(marks_data, grades_data)
       IN  /\ path \in Paths
           /\ filename' = path
           /\ IF opened
              THEN /\ fs' = [fs EXCEPT ![path] = File(out.text)]
                   /\ msg' = IF out.ok THEN "saved" ELSE "save_unknown_error"
              ELSE /\ msg' = "save_error"
                   /\ UNCHANGED fs
    /\ pc' = "menu"
    /\ UNCHANGED <<marks_dict, name, marks_data, grades_data, distribution,
                   max_entry, min_entry, passed, failed, save_choice>>

Next ==
    \/ \E choice \in MenuInputs : Menu(choice)
    \/ \E raw \in NameInputs : ManualName(raw)
    \/ \E raw \in MarkInputs : ManualMark(raw)
    \/ \E raw \in LoadNameInputs : LoadFromCsv(raw)
    \/ Analyze
    \/ \E raw \in AnswerInputs : Report(raw)
    \/ \E raw \in SaveNameInputs, opened \in BOOLEAN : SaveResults(raw, opened)

Spec == Init /\ [][Next]_vars

\* The CSV adapter and the pass it starts, over the files CsvContents
InitCsv ==
    /\ pc = "csv_filename"
    /\ marks_data = <<>>
    /\ fs \in { [p \in Paths |-> IF p = APath THEN f ELSE NoFile] :
                  f \in {NoFile} \cup { File(c) : c \in CsvContents } }
    /\ Locals

NextCsv ==
    \/ \E raw \in LoadNameInputs : LoadFromCsv(raw)
    \/ Analyze
    \/ \E raw \in AnswerInputs : Report(raw)
    \/ \E raw \in SaveNameInputs, opened \in BOOLEAN : SaveResults(raw, opened)

SpecCsv == InitCsv /\ [][NextCsv]_vars

\* The analysis pass over the Record Stores of Stores
InitAnalysis ==
    /\ pc = "analyze"
    /\ marks_data \in Stores
    /\ marks_data # <<>>
    /\ fs = [p \in Paths |-> NoFile]
    /\ Locals

NextAnalysis ==
    \/ Analyze
    \/ \E raw \in AnswerInputs : Report(raw)
    \/ \E raw \in SaveNameInputs, opened \in BOOLEAN : SaveResults(raw, opened)

SpecAnalysis == InitAnalysis /\ [][NextAnalysis]_vars

----------------------------------------------------------------------------
(* Properties *)

Phase(p) ==
    CASE p = "menu" -> "MENU"
      [] p \in {"manual_name", "manual_mark", "csv_filename"} -> "COLLECT"
      [] p = "analyze" -> "ANALYZE"
      [] p \in {"report", "save_filename"} -> "REPORT"
      [] p = "exit" -> "EXIT"

Analysed == pc \in {"report", "save_filename"}

\* C1: every mark of the Record Store an adapter returned is an integer in
\* [0,100] and every name is a non-empty string.
C1_StoreInRange ==
    \A i \in 1..Len(marks_data) :
        /\ marks_data[i][2] \in 0..100
        /\ marks_data[i][1] # <<>>

\* C2: the loop of main moves between MENU, COLLECT, ANALYZE, REPORT and
\* EXIT only as follows.  From MENU choice 1 or 2 goes to COLLECT, choice 3
\* to EXIT, anything else stays in MENU with nothing collected or analysed.
\* COLLECT is left to ANALYZE exactly when the collected store is non-empty
\* and to MENU otherwise.  ANALYZE goes to REPORT.  REPORT returns to MENU,
\* and a file is written only in REPORT after the confirmation answer
\* (stripped, lower-cased, as main compares it) was "y".  EXIT is final.
C2_Step ==
    /\ \A choice \in MenuInputs : Menu(choice) =>
          /\ choice \in {<<"1">>, <<"2">>} => Phase(pc') = "COLLECT"
          /\ choice = <<"3">> => Phase(pc') = "EXIT"
          /\ choice \notin {<<"1">>, <<"2">>, <<"3">>} =>
                /\ Phase(pc') = "MENU"
                /\ marks_data' = <<>> /\ marks_dict' = <<>> /\ grades_data' = <<>>
    /\ Phase(pc) = "MENU" => Phase(pc') \in {"MENU", "COLLECT", "EXIT"}
    /\ Phase(pc) = "COLLECT" =>
          /\ Phase(pc') \in {"COLLECT", "ANALYZE", "MENU"}
          /\ Phase(pc') = "ANALYZE" => marks_data' # <<>>
          /\ Phase(pc') = "MENU" => marks_data' = <<>>
    /\ Phase(pc) = "ANALYZE" => Phase(pc') = "REPORT"
    /\ Phase(pc) = "REPORT" =>
          /\ Phase(pc') \in {"REPORT", "MENU"}
          /\ pc' = "save_filename" <=> (pc = "report" /\ save_choice' = <<"y">>)
    /\ fs' # fs => pc = "save_filename" /\ save_choice = <<"y">>
    /\ Phase(pc) # "EXIT"

C2_StateMachine == [][C2_Step]_vars

C2_Witness ==
    /\ pc = "menu"
    /\ msg = "saved"
    /\ fs[RPath].exists
    /\ save_choice = <<"y">>

\* C3: assign_grades gives every name of the mapping exactly one grade,
\* decided by its mark alone: A from 90, B from 80 to 89, C from 70 to 79,
\* D from 60 to 69, F below 60.
C3_Expected(m) ==
    CASE m >= 90 -> "A"
      [] 80 <= m /\ m < 90 -> "B"
      [] 70 <= m /\ m < 80 -> "C"
      [] 60 <= m /\ m < 70 -> "D"
      [] OTHER -> "F"

C3_GradeByMark ==
    /\ Analysed =>
          /\ Len(grades_data) = Len(marks_data)
          /\ \A i \in 1..Len(marks_data) :
                grades_data[i] = <<marks_data[i][1], C3_Expected(marks_data[i][2])>>
    /\ \A i \in 1..Len(marks_data) : GradeOf(marks_data[i][2]) \in {"A", "B", "C", "D", "F"}
    /\ <<GradeOf(90), GradeOf(89), GradeOf(80), GradeOf(79), GradeOf(60), GradeOf(59)>>
          = <<"A", "B", "B", "C", "D", "F">>
    /\ \A m \in -5..105 : GradeOf(m) = C3_Expected(m)

C3_Witness ==
    /\ pc = "report"
    /\ \E i, j \in 1..Len(marks_data) :
          /\ marks_data[i][2] = 89 /\ grades_data[i][2] = "B"
          /\ marks_data[j][2] = 59 /\ grades_data[j][2] = "F"

C5_WellFormed(row) == Len(row) >= 2 /\ ParseInt(row[2]).ok

RECURSIVE C5_Expected(_, _)
C5_Expected(d, rows) ==
    IF rows = <<>> THEN d
    ELSE IF C5_WellFormed(Head(rows))
         THEN C5_Expected(Put(d, Strip(Head(rows)[1]), ParseInt(Head(rows)[2]).val),
                          Tail(rows))
         ELSE C5_Expected(d, Tail(rows))

C5_Loaded ==
    /\ filename = APath
    /\ fs[APath].exists
    /\ CsvReader(fs[APath].data) # <<>>
    /\ pc \in {"analyze", "report"} \/ (pc = "menu" /\ msg = "no_data")

C5_MalformedSkipped ==
    C5_Loaded => marks_data = C5_Expected(<<>>, Tail(CsvReader(fs[APath].data)))

C5_Witness ==
    /\ C5_Loaded
    /\ pc = "analyze"
    /\ Len(marks_data) = 2
    /\ LET rows == Tail(CsvReader(fs[APath].data))
       IN  /\ Len(rows) = 3
           /\ \E i \in 1..3 : ~C5_WellFormed(rows[i])
           /\ ~C5_WellFormed(rows[1]) \/ ~C5_WellFormed(rows[2])

\* C6: for every threshold the passed names (mark >= threshold) and the
\* failed names (mark < threshold) are disjoint and together are all the
\* names of the store, so their counts add up to the size of the store.
C6_Thresholds == {-1, 0, 40, 41, 60, 90, 101, 102}

C6_Partition(d, p, f, t) ==
    /\ Keys(p) \cap Keys(f) = {}
    /\ Keys(p) \cup Keys(f) = Keys(d)
    /\ Len(p) + Len(f) = Len(d)
    /\ \A i \in 1..Len(p) : p[i][2] >= t /\ Get(d, p[i][1]) = p[i][2]
    /\ \A i \in 1..Len(f) : f[i][2] < t /\ Get(d, f[i][1]) = f[i][2]

C6_PassFailPartition ==
    /\ Analysed => C6_Partition(marks_data, passed, failed, PassThreshold)
    /\ \A t \in C6_Thresholds :
          C6_Partition(marks_data, PassedOf(marks_data, t), FailedOf(marks_data, t), t)

C6_Witness ==
    /\ pc = "report"
    /\ passed # <<>>
    /\ failed # <<>>
    /\ \E i \in 1..Len(marks_data) : marks_data[i][2] = PassThreshold

\* C7: get_max_score returns an entry of the store whose mark no mark
\* exceeds, get_min_score one whose mark no mark is below; of several
\* entries with the extreme mark the first inserted is returned; for an
\* empty store both return ("N/A", 0).
C7_FirstExtreme(d, e, IsBeyond(_, _)) ==
    \E k \in 1..Len(d) :
        /\ e = d[k]
        /\ \A i \in 1..Len(d) : ~IsBeyond(d[i][2], e[2])
        /\ \A i \in 1..(k - 1) : d[i][2] # e[2]

C7_Above(a, b) == a > b

C7_Below(a, b) == a < b

C7_MaxMin ==
    /\ Analysed =>
          /\ C7_FirstExtreme(marks_data, max_entry, C7_Above)
          /\ C7_FirstExtreme(marks_data, min_entry, C7_Below)
    /\ get_max_score(<<>>) = <<<<"N", "/", "A">>, 0>>
    /\ get_min_score(<<>>) = <<<<"N", "/", "A">>, 0>>

C7_Witness ==
    /\ pc = "report"
    /\ Len(marks_data) = 2
    /\ marks_data[1][2] = marks_data[2][2]
    /\ max_entry = marks_data[1]
    /\ min_entry = marks_data[1]

\* C8: the five counts of calculate_grade_distribution, one for each of
\* A, B, C, D, F, add up to the number of students; for an empty store
\* all five are zero.
C8_Total(dist) == dist["A"] + dist["B"] + dist["C"] + dist["D"] + dist["F"]

C8_DistributionSum ==
    /\ Analysed =>
          /\ DOMAIN distribution = {"A", "B", "C", "D", "F"}
          /\ C8_Total(distribution) = Len(marks_data)
          /\ \A g \in DOMAIN distribution :
                distribution[g] =
                    Cardinality({i \in 1..Len(marks_data) : C3_Expected(marks_data[i][2]) = g})
    /\ calculate_grade_distribution(assign_grades(<<>>)) =
          [g \in {"A", "B", "C", "D", "F"} |-> 0]

C8_Witness ==
    /\ pc = "report"
    /\ Len(marks_data) = 2
    /\ distribution["F"] = 1
    /\ distribution["A"] = 1
    /\ distribution["B"] = 0

\* C9: when the results table is printed and when the export is written,
\* the grade mapping and the Record Store have the same names, so the
\* export finds a grade for every name it writes.
C9_SameKeys ==
    /\ Analysed => Keys(grades_data) = Keys(marks_data)
    /\ msg # "save_unknown_error"

C9_Witness ==
    /\ pc = "save_filename"
    /\ Len(marks_data) = 2
    /\ Keys(grades_data) = Keys(marks_data)

\* C10: in get_manual_input a mark that is no integer or lies outside
\* [0,100] leaves the store as it was, entry goes on and the next prompt
\* is the name prompt; a valid mark is stored under the name, replacing an
\* earlier mark of that name; entry ends only at an empty name.
C10_Invalid(raw) ==
    LET m == ParseInt(raw) IN ~m.ok \/ m.val < 0 \/ m.val > 100

C10_Step ==
    /\ \A raw \in MarkInputs : ManualMark(raw) =>
          /\ pc' = "manual_name"
          /\ marks_data' = marks_data
          /\ C10_Invalid(raw) => marks_dict' = marks_dict
          /\ ~C10_Invalid(raw) =>
                /\ Keys(marks_dict') = Keys(marks_dict) \cup {name}
                /\ Get(marks_dict', name) = ParseInt(raw).val
                /\ \A k \in Keys(marks_dict) \ {name} :
                      Get(marks_dict', k) = Get(marks_dict, k)
    /\ (Phase(pc) = "COLLECT" /\ pc # "csv_filename" /\ Phase(pc') # "COLLECT") =>
          /\ pc = "manual_name"
          /\ \E raw \in NameInputs : Strip(raw) = <<>> /\ ManualName(raw)
    /\ \A raw \in NameInputs :
          (ManualName(raw) /\ Strip(raw) # <<>>) => pc' = "manual_mark" /\ name' = Strip(raw)

C10_ManualEntry == [][C10_Step]_vars

C10_Witness ==
    /\ pc = "manual_name"
    /\ msg = "invalid_mark"
    /\ name \in Keys(marks_dict)
    /\ Len(marks_dict) = 2

====
